---- MODULE Spec2Model ----
(***************************************************************************)
(* Model of the useGeolocation hook (src/src/hooks/use-geolocation.ts).     *)
(*                                                                         *)
(* The hook keeps one state container, locationData, and runs one          *)
(* "cascade" (an invocation of the async function getLocationWithFallback) *)
(* per mount and per getLocation() call.  A cascade suspends at each await *)
(* and is resumed by the platform's callback; the code between two awaits  *)
(* runs to completion on the event loop, so it is one action here.         *)
(*                                                                         *)
(* Optional values (T | null) are sets with at most one element: Null is   *)
(* the empty set and Some(x) is {x}.                                       *)
(***************************************************************************)
EXTENDS Integers, Sequences, FiniteSets

\* Number of getLocation() calls a behaviour may make after the mount.
MaxRefresh == 1

Cascades == 1..(MaxRefresh + 1)

Null == {}
Some(x) == {x}

(***************************************************************************)
(* Values supplied by the platform.                                        *)
(***************************************************************************)

\* GeolocationPosition.coords values handed to a success callback.
Positions == {[latitude |-> 1, longitude |-> 2], [latitude |-> 0, longitude |-> -3]}

\* Values a promise can be rejected with (the catch variables are `any`):
\*   kind "undefined": null / undefined (reading a property of it throws);
\*   kind "primitive": a falsy primitive such as 0 or "" (reading a property
\*                     yields undefined);
\*   kind "object":    an error object; code 0 stands for "no code property"
\*                     or an unrecognised one (a plain Error), 1..3 are the
\*                     GeolocationPositionError codes.
Undefined == [kind |-> "undefined", code |-> 0]
FalsyPrimitive == [kind |-> "primitive", code |-> 0]
ErrorObjects == {[kind |-> "object", code |-> k] : k \in 0..3}
RejectionValues == ErrorObjects \cup {Undefined, FalsyPrimitive}
\* The values the first request is rejected with here: position unavailable,
\* timeout, or nothing.  (Its code is read only when the second request's
\* rejection value is falsy.)
HighAccuracyRejections == {e \in ErrorObjects : e.code \in {2, 3}} \cup {Undefined}

\* Catch variable that has not been bound yet.
Unbound == [kind |-> "unbound", code |-> 0]

\* A numeric JSON field: absent, or a number.
LatitudeFields == {Null, Some(0), Some(-2)}
LongitudeFields == {Null, Some(0), Some(3)}
\* Bodies that response.json() can produce.
JsonBodies ==
    {[latitude |-> la, longitude |-> lo] : la \in LatitudeFields, lo \in LongitudeFields}

(***************************************************************************)
(* The state container and the values written to it.                       *)
(***************************************************************************)

InitialState == [coordinates |-> Null, error |-> Null, isLoading |-> TRUE]

\* StartUpdate forgetting to clear the previous error.
StartUpdate_KeepsError(prev) == [prev EXCEPT !.isLoading = TRUE]
\* StartUpdate forgetting to raise the loading flag.
StartUpdate_NotLoading(prev) == [prev EXCEPT !.error = Null]
\* StartUpdate resetting the whole state.
StartUpdate_ClearsCoordinates(prev) ==
    [coordinates |-> Null, error |-> Null, isLoading |-> TRUE]
StartUpdate(prev) == [prev EXCEPT !.isLoading = TRUE, !.error = Null]

NotSupportedMessage == "Geolocation is not supported by your browser"

\* NotSupportedState leaving the loading flag up.
NotSupportedState_StillLoading ==
    [coordinates |-> Null, error |-> Some(NotSupportedMessage), isLoading |-> TRUE]

NotSupportedState ==
    [coordinates |-> Null, error |-> Some(NotSupportedMessage), isLoading |-> FALSE]

\* PositionCoordinates with the two fields exchanged.
PositionCoordinates_Swapped(position) ==
    [lat |-> position.longitude, lon |-> position.latitude]

PositionCoordinates(position) ==
    [lat |-> position.latitude, lon |-> position.longitude]

\* SuccessState leaving the loading flag up.
SuccessState_StillLoading(coords) ==
    [coordinates |-> Some(coords), error |-> Null, isLoading |-> TRUE]

SuccessState(coords) ==
    [coordinates |-> Some(coords), error |-> Null, isLoading |-> FALSE]

\* FailureState dropping the message.
FailureState_DropsError(errorMessage) ==
    [coordinates |-> Null, error |-> Null, isLoading |-> FALSE]

FailureState(errorMessage) ==
    [coordinates |-> Null, error |-> Some(errorMessage), isLoading |-> FALSE]

PermissionDeniedMessage ==
    "Location permission denied. Please enable location access in your browser settings."
PositionUnavailableMessage ==
    "Location is currently unavailable. Please check your GPS/WiFi connection and try again."
TimeoutMessage == "Location request timed out. Please try again."
GenericMessage ==
    "Unable to determine your location. Please enable location services and try again."

(***************************************************************************)
(* JavaScript semantics used by the cascade.                               *)
(***************************************************************************)

\* e.message can be read without a TypeError.
CanReadProperty(e) == e.kind # "undefined"

\* Truthiness of a rejection value.
TruthyError(e) == e.kind = "object"

\* GpsError preferring the first strategy's error.
GpsError_PrefersHigh(low, high) == IF TruthyError(high) THEN high ELSE low

\* lowAccuracyError || highAccuracyError
GpsError(low, high) == IF TruthyError(low) THEN low ELSE high

\* switch (gpsError?.code)
ErrorMessage(gpsError) ==
    LET code == IF gpsError.kind = "object" THEN gpsError.code ELSE 0
    IN  CASE code = 1 -> PermissionDeniedMessage
          [] code = 2 -> PositionUnavailableMessage
          [] code = 3 -> TimeoutMessage
          [] OTHER    -> GenericMessage

\* Truthiness of a JSON field: undefined and 0 are falsy.
TruthyNumber(field) == field # Null /\ field # Some(0)

\* data.latitude && data.longitude
ValidIPResponse(data) == TruthyNumber(data.latitude) /\ TruthyNumber(data.longitude)

IPCoordinates(data) ==
    [lat |-> CHOOSE n \in data.latitude : TRUE, lon |-> CHOOSE n \in data.longitude : TRUE]

(***************************************************************************)
(* Recorded effects of a cascade, in program order.                        *)
(***************************************************************************)
SetEffect(s) == [op |-> "setLocationData", arg |-> Some(s)]
\* RequestEffect repeating the high accuracy request.
RequestEffect_RetriesHigh(strategy) == [op |-> "high", arg |-> Null]
RequestEffect(strategy) == [op |-> strategy, arg |-> Null]

VARIABLES
    geolocation,        \* navigator.geolocation is present
    locationData,       \* the hook's state container
    calls,              \* number of getLocationWithFallback invocations so far
    pc,                 \* per cascade: the await it is suspended at
    highAccuracyError,  \* per cascade: catch variable of the outer catch
    lowAccuracyError,   \* per cascade: catch variable of the middle catch
    responseOk,         \* per cascade: response.ok of the fetch response, if any
    effects,            \* per cascade: state writes and requests, in order
    lastWriter          \* cascade whose setLocationData call was the latest

vars == <<geolocation, locationData, calls, pc, highAccuracyError,
          lowAccuracyError, responseOk, effects, lastWriter>>

Init ==
    /\ geolocation \in BOOLEAN
    /\ locationData = InitialState
    /\ calls = 0
    /\ pc = [c \in Cascades |-> "idle"]
    /\ highAccuracyError = [c \in Cascades |-> Unbound]
    /\ lowAccuracyError = [c \in Cascades |-> Unbound]
    /\ responseOk = [c \in Cascades |-> Null]
    /\ effects = [c \in Cascades |-> <<>>]
    /\ lastWriter = 0

\* Settle discarding the result of a cascade that is not the latest one.
Settle_LatestCallOnly(c, s) ==
    /\ locationData' = IF c = calls THEN s ELSE locationData
    /\ pc' = [pc EXCEPT ![c] = "done"]
    /\ effects' = [effects EXCEPT ![c] = Append(@, SetEffect(s))]
    /\ lastWriter' = c
    /\ highAccuracyError' = [highAccuracyError EXCEPT ![c] = Unbound]
    /\ lowAccuracyError' = [lowAccuracyError EXCEPT ![c] = Unbound]
    /\ responseOk' = [responseOk EXCEPT ![c] = Null]

\* The cascade writes its final state and returns; its frame (the catch
\* variables and the response) is gone with it.
Settle(c, s) ==
    /\ locationData' = s
    /\ pc' = [pc EXCEPT ![c] = "done"]
    /\ effects' = [effects EXCEPT ![c] = Append(@, SetEffect(s))]
    /\ lastWriter' = c
    /\ highAccuracyError' = [highAccuracyError EXCEPT ![c] = Unbound]
    /\ lowAccuracyError' = [lowAccuracyError EXCEPT ![c] = Unbound]
    /\ responseOk' = [responseOk EXCEPT ![c] = Null]

\* The innermost catch: all methods failed.
AllFailed(c) ==
    Settle(c, FailureState(ErrorMessage(GpsError(lowAccuracyError[c], highAccuracyError[c]))))

\* getLocationWithFallback up to its first await (or its early return).
Start(c) ==
    LET started == StartUpdate(locationData) IN
    /\ calls' = c
    /\ lastWriter' = c
    /\ IF ~geolocation
       THEN /\ locationData' = NotSupportedState
            /\ pc' = [pc EXCEPT ![c] = "done"]
            /\ effects' = [effects EXCEPT ![c] =
                              <<SetEffect(started), SetEffect(NotSupportedState)>>]
       ELSE /\ locationData' = started
            /\ pc' = [pc EXCEPT ![c] = "high"]
            /\ effects' = [effects EXCEPT ![c] =
                              <<SetEffect(started), RequestEffect("high")>>]
    /\ UNCHANGED <<geolocation, highAccuracyError, lowAccuracyError, responseOk>>

\* useEffect on mount.
Mount ==
    /\ calls = 0
    /\ Start(1)

\* The consumer calls getLocation().
GetLocation ==
    /\ calls >= 1
    /\ calls < MaxRefresh + 1
    /\ Start(calls + 1)

\* Strategy 1 succeeds.
HighAccuracyResolve(c, position) ==
    /\ pc[c] = "high"
    /\ Settle(c, SuccessState(PositionCoordinates(position)))
    /\ UNCHANGED <<geolocation, calls>>

\* HighAccuracyReject showing the failure of strategy 1 to the consumer.
HighAccuracyReject_SurfacesError(c, e) ==
    /\ pc[c] = "high"
    /\ highAccuracyError' = [highAccuracyError EXCEPT ![c] = e]
    /\ locationData' = FailureState(ErrorMessage(e))
    /\ lastWriter' = c
    /\ IF CanReadProperty(e)
       THEN /\ pc' = [pc EXCEPT ![c] = "low"]
            /\ effects' = [effects EXCEPT ![c] = Append(@, RequestEffect("low"))]
       ELSE /\ pc' = [pc EXCEPT ![c] = "threw"]
            /\ UNCHANGED effects
    /\ UNCHANGED <<geolocation, calls, lowAccuracyError, responseOk>>

\* Strategy 1 fails: log, then start strategy 2.
HighAccuracyReject(c, e) ==
    /\ pc[c] = "high"
    /\ highAccuracyError' = [highAccuracyError EXCEPT ![c] = e]
    /\ IF CanReadProperty(e)
       THEN /\ pc' = [pc EXCEPT ![c] = "low"]
            /\ effects' = [effects EXCEPT ![c] = Append(@, RequestEffect("low"))]
       ELSE /\ pc' = [pc EXCEPT ![c] = "threw"]
            /\ UNCHANGED effects
    /\ UNCHANGED <<geolocation, locationData, calls, lowAccuracyError, responseOk, lastWriter>>

\* Strategy 2 succeeds.
LowAccuracyResolve(c, position) ==
    /\ pc[c] = "low"
    /\ Settle(c, SuccessState(PositionCoordinates(position)))
    /\ UNCHANGED <<geolocation, calls>>

\* Strategy 2 fails: log, then start strategy 3.
LowAccuracyReject(c, e) ==
    /\ pc[c] = "low"
    /\ lowAccuracyError' = [lowAccuracyError EXCEPT ![c] = e]
    /\ IF CanReadProperty(e)
       THEN /\ pc' = [pc EXCEPT ![c] = "fetch"]
            /\ effects' = [effects EXCEPT ![c] = Append(@, RequestEffect("fetch"))]
       ELSE /\ pc' = [pc EXCEPT ![c] = "threw"]
            /\ UNCHANGED effects
    /\ UNCHANGED <<geolocation, locationData, calls, highAccuracyError, responseOk, lastWriter>>

\* fetch() resolves with a response of any status.
FetchResolve(c, ok) ==
    /\ pc[c] = "fetch"
    /\ pc' = [pc EXCEPT ![c] = "json"]
    /\ responseOk' = [responseOk EXCEPT ![c] = Some(ok)]
    /\ UNCHANGED <<geolocation, locationData, calls, highAccuracyError,
                   lowAccuracyError, effects, lastWriter>>

\* fetch() rejects (network error).
FetchReject(c) ==
    /\ pc[c] = "fetch"
    /\ AllFailed(c)
    /\ UNCHANGED <<geolocation, calls>>

\* response.json() resolves with a body.
JsonResolve(c, data) ==
    /\ pc[c] = "json"
    /\ IF ValidIPResponse(data)
       THEN Settle(c, SuccessState(IPCoordinates(data)))
       ELSE AllFailed(c)
    /\ UNCHANGED <<geolocation, calls>>

\* response.json() rejects (body is not JSON).
JsonReject(c) ==
    /\ pc[c] = "json"
    /\ AllFailed(c)
    /\ UNCHANGED <<geolocation, calls>>

Next ==
    \/ Mount
    \/ GetLocation
    \/ \E c \in Cascades, position \in Positions : HighAccuracyResolve(c, position)
    \/ \E c \in Cascades, e \in HighAccuracyRejections : HighAccuracyReject(c, e)
    \/ \E c \in Cascades, position \in Positions : LowAccuracyResolve(c, position)
    \/ \E c \in Cascades, e \in RejectionValues : LowAccuracyReject(c, e)
    \/ \E c \in Cascades, ok \in BOOLEAN : FetchResolve(c, ok)
    \/ \E c \in Cascades : FetchReject(c)
    \/ \E c \in Cascades, data \in JsonBodies : JsonResolve(c, data)
    \/ \E c \in Cascades : JsonReject(c)

Spec == Init /\ [][Next]_vars

\* Every request a cascade is waiting for is eventually answered.
Answered(c) ==
    \/ \E position \in Positions : HighAccuracyResolve(c, position)
    \/ \E e \in HighAccuracyRejections : HighAccuracyReject(c, e)
    \/ \E position \in Positions : LowAccuracyResolve(c, position)
    \/ \E e \in RejectionValues : LowAccuracyReject(c, e)
    \/ \E ok \in BOOLEAN : FetchResolve(c, ok)
    \/ FetchReject(c)
    \/ \E data \in JsonBodies : JsonResolve(c, data)
    \/ JsonReject(c)

FairSpec == Spec /\ \A c \in Cascades : WF_vars(Answered(c))

(***************************************************************************)
(* Vocabulary of the properties.                                           *)
(***************************************************************************)
IsRequest(effect) == effect.op # "setLocationData"
IsWrite(effect) == effect.op = "setLocationData"

\* The strategies cascade c has requested, in order.
Requests(c) ==
    LET reqs == SelectSeq(effects[c], IsRequest)
    IN  [i \in 1..Len(reqs) |-> reqs[i].op]

\* The state written by the i-th effect of cascade c (a write).
Written(c, i) == CHOOSE s \in effects[c][i].arg : TRUE

Started(c) == pc[c] # "idle"
InFlight(c) == pc[c] \in {"high", "low", "fetch", "json"}
Settled(c) == pc[c] = "done"

\* The state cascade c settled with.
FinalWrite(c) == Written(c, Len(effects[c]))

\* This step starts cascade c.
StartStep(c) == pc[c] = "idle" /\ pc'[c] # "idle"

\* This step is the third strategy of cascade c failing.
IPFailedStep(c) ==
    /\ pc[c] \in {"fetch", "json"}
    /\ pc'[c] = "done"
    /\ \/ FetchReject(c)
       \/ JsonReject(c)
       \/ \E data \in JsonBodies : ~ValidIPResponse(data) /\ JsonResolve(c, data)

\* A settled cascade does nothing more.
SettledIsFinal(c) == Settled(c) => effects'[c] = effects[c] /\ pc'[c] = pc[c]

(***************************************************************************)
(* C1: whenever isLoading is false, exactly one of coordinates and error   *)
(* is non-null, whatever the interleaving of cascades.                     *)
(***************************************************************************)
C1_ExactlyOneWhenSettled ==
    ~locationData.isLoading =>
        (locationData.coordinates # Null) # (locationData.error # Null)

\* A cascade has settled with coordinates while another is still in flight.
C1_Witness ==
    /\ ~locationData.isLoading
    /\ locationData.coordinates # Null
    /\ \E c, d \in Cascades : Settled(c) /\ InFlight(d)

(***************************************************************************)
(* C2: every cascade that was started settles: once its function has       *)
(* finished (returned or thrown) its last effect is a write with           *)
(* isLoading = false.                                                      *)
(***************************************************************************)
C2_EveryCascadeSettles ==
    \A c \in Cascades :
        (Started(c) /\ ~InFlight(c)) =>
            /\ IsWrite(effects[c][Len(effects[c])])
            /\ ~FinalWrite(c).isLoading

(***************************************************************************)
(* C3: without the geolocation capability a cascade settles within its     *)
(* start step with the not-supported message and issues no request.        *)
(***************************************************************************)
C3_NotSupported ==
    ~geolocation =>
        \A c \in Cascades :
            /\ ~InFlight(c) /\ pc[c] # "threw"
            /\ Settled(c) =>
                /\ Requests(c) = <<>>
                /\ FinalWrite(c) =
                      [coordinates |-> Null,
                       error |-> Some("Geolocation is not supported by your browser"),
                       isLoading |-> FALSE]
                /\ locationData = FinalWrite(c)

\* A getLocation() call has been answered with the not-supported message.
C3_Witness ==
    /\ ~geolocation
    /\ calls = 2
    /\ Settled(2)
    /\ locationData.error = Some(NotSupportedMessage)

(***************************************************************************)
(* C4: when strategy 1 succeeds with a position, the cascade settles with  *)
(* that position's latitude and longitude, error null and isLoading false, *)
(* having requested strategy 1 only, and requests nothing afterwards.      *)
(***************************************************************************)
C4_HighAccuracySuccess ==
    [][\A c \in Cascades :
          /\ \A position \in Positions :
                (pc[c] = "high" /\ HighAccuracyResolve(c, position)) =>
                    /\ locationData' =
                          [coordinates |-> Some([lat |-> position.latitude,
                                                 lon |-> position.longitude]),
                           error |-> Null,
                           isLoading |-> FALSE]
                    /\ Settled(c)'
                    /\ Requests(c)' = <<"high">>
          /\ SettledIsFinal(c)]_vars

\* A cascade has settled after its high accuracy request succeeded.
C4_Witness ==
    \E c \in Cascades :
        /\ Settled(c)
        /\ Requests(c) = <<"high">>
        /\ lastWriter = c
        /\ locationData.coordinates = Some([lat |-> 0, lon |-> -3])

(***************************************************************************)
(* C5: when strategy 1 has failed and strategy 2 succeeds with a position, *)
(* the cascade settles with that position's latitude and longitude, error  *)
(* null and isLoading false, and never issues the IP request.              *)
(***************************************************************************)
C5_LowAccuracySuccess ==
    [][\A c \in Cascades :
          /\ \A position \in Positions :
                (pc[c] = "low" /\ LowAccuracyResolve(c, position)) =>
                    /\ highAccuracyError[c] \in HighAccuracyRejections
                    /\ locationData' =
                          [coordinates |-> Some([lat |-> position.latitude,
                                                 lon |-> position.longitude]),
                           error |-> Null,
                           isLoading |-> FALSE]
                    /\ Settled(c)'
                    /\ Requests(c)' = <<"high", "low">>
          /\ (Settled(c) => Requests(c)' = Requests(c))]_vars

\* A cascade has settled after its low accuracy request succeeded.
C5_Witness ==
    \E c \in Cascades :
        /\ Settled(c)
        /\ Requests(c) = <<"high", "low">>
        /\ lastWriter = c
        /\ locationData.coordinates = Some([lat |-> 1, lon |-> 2])

(***************************************************************************)
(* C6: when strategies 1 and 2 have failed and the JSON body carries both  *)
(* a latitude and a longitude number, whatever their values (0 and         *)
(* negative numbers included), the cascade settles with exactly these      *)
(* coordinates, error null and isLoading false.                            *)
(***************************************************************************)
C6_IPSuccessForAnyNumbers ==
    [][\A c \in Cascades : \A data \in JsonBodies :
          (/\ pc[c] = "json"
           /\ data.latitude # Null
           /\ data.longitude # Null
           /\ JsonResolve(c, data)) =>
              \E la \in data.latitude : \E lo \in data.longitude :
                  locationData' =
                      [coordinates |-> Some([lat |-> la, lon |-> lo]),
                       error |-> Null,
                       isLoading |-> FALSE]]_vars

(***************************************************************************)
(* C7: when all three strategies fail and strategy 2 failed with an error  *)
(* object, the message is chosen by that object's code alone: 1 permission *)
(* denied, 2 position unavailable, 3 timed out, anything else generic; the *)
(* cascade settles with coordinates null and isLoading false.              *)
(***************************************************************************)
C7_MessageFromLowAccuracyError ==
    [][\A c \in Cascades :
          (lowAccuracyError[c].kind = "object" /\ IPFailedStep(c)) =>
              /\ Settled(c)'
              /\ locationData' =
                    [coordinates |-> Null,
                     error |-> Some(
                        CASE lowAccuracyError[c].code = 1 ->
                               "Location permission denied. Please enable location access in your browser settings."
                          [] lowAccuracyError[c].code = 2 ->
                               "Location is currently unavailable. Please check your GPS/WiFi connection and try again."
                          [] lowAccuracyError[c].code = 3 ->
                               "Location request timed out. Please try again."
                          [] OTHER ->
                               "Unable to determine your location. Please enable location services and try again."),
                     isLoading |-> FALSE]]_vars

\* A cascade has settled with the permission-denied message after all three
\* strategies failed.
C7_Witness ==
    \E c \in Cascades :
        /\ Settled(c)
        /\ Requests(c) = <<"high", "low", "fetch">>
        /\ lastWriter = c
        /\ locationData.error = Some(PermissionDeniedMessage)

(***************************************************************************)
(* C8: when strategy 2 fails without an error object, the cascade goes on  *)
(* to strategy 3, and if that fails too it settles with the message chosen *)
(* by strategy 1's error code (code 2: position unavailable), coordinates  *)
(* null and isLoading false.                                               *)
(***************************************************************************)
C8_MessageFromHighAccuracyError ==
    [][\A c \in Cascades :
          /\ lowAccuracyError'[c].kind \in {"undefined", "primitive"} =>
                pc'[c] \in {"fetch", "json"}
          /\ (/\ lowAccuracyError[c].kind \in {"undefined", "primitive"}
              /\ highAccuracyError[c].kind = "object"
              /\ IPFailedStep(c)) =>
                /\ Settled(c)'
                /\ locationData' =
                      [coordinates |-> Null,
                       error |-> Some(
                          CASE highAccuracyError[c].code = 1 ->
                                 "Location permission denied. Please enable location access in your browser settings."
                            [] highAccuracyError[c].code = 2 ->
                                 "Location is currently unavailable. Please check your GPS/WiFi connection and try again."
                            [] highAccuracyError[c].code = 3 ->
                                 "Location request timed out. Please try again."
                            [] OTHER ->
                                 "Unable to determine your location. Please enable location services and try again."),
                       isLoading |-> FALSE]]_vars

(***************************************************************************)
(* C9: a getLocation() call made in a settled state first writes a state   *)
(* with isLoading = true and error = null, and no request of the new       *)
(* cascade precedes that write.                                            *)
(***************************************************************************)
C9_StartResetsLoadingAndError ==
    [][\A c \in Cascades :
          (StartStep(c) /\ ~locationData.isLoading) =>
              /\ IsWrite(effects'[c][1])
              /\ Written(c, 1)'.isLoading
              /\ Written(c, 1)'.error = Null
              /\ geolocation => locationData' = Written(c, 1)']_vars

\* getLocation() was called after a cascade settled with an error, and the
\* new cascade is waiting for its first request.
C9_Witness ==
    \E c, d \in Cascades :
        /\ Settled(c)
        /\ FinalWrite(c).error # Null
        /\ pc[d] = "high"
        /\ lastWriter = d
        /\ locationData.isLoading
        /\ locationData.error = Null

(***************************************************************************)
(* C10 as stated: while a cascade is in flight, coordinates and error are  *)
(* both null.                                                              *)
(***************************************************************************)
C10_NothingVisibleInFlight ==
    (\E c \in Cascades : InFlight(c)) =>
        locationData.coordinates = Null /\ locationData.error = Null

(***************************************************************************)
(* C10 amended: while a cascade is in flight and no cascade has settled    *)
(* since the most recent start, isLoading is true and error is null;       *)
(* coordinates are null unless an earlier cascade settled with them.       *)
(***************************************************************************)
C10_InFlightAfterStart ==
    (/\ \E c \in Cascades : InFlight(c)
     /\ lastWriter # 0
     /\ ~Settled(lastWriter)) =>
        /\ locationData.isLoading
        /\ locationData.error = Null
        /\ locationData.coordinates # Null =>
              \E d \in Cascades :
                  Settled(d) /\ FinalWrite(d).coordinates = locationData.coordinates

\* A cascade started by getLocation() is in flight while the coordinates of
\* an earlier successful cascade are still visible.
C10_Witness ==
    \E c, d \in Cascades :
        /\ Settled(c)
        /\ InFlight(d)
        /\ lastWriter = d
        /\ locationData.coordinates # Null
        /\ locationData.isLoading

(***************************************************************************)
(* C11 as stated: while a cascade is in flight, isLoading is true.         *)
(***************************************************************************)
C11_LoadingWhileInFlight ==
    (\E c \in Cascades : InFlight(c)) => locationData.isLoading

(***************************************************************************)
(* C11 amended: while a cascade is in flight, isLoading is true unless     *)
(* another cascade has settled since the most recent start; the visible    *)
(* state is then what that cascade settled with.                           *)
(***************************************************************************)
C11_LoadingUnlessAnotherSettled ==
    \A c \in Cascades :
        InFlight(c) =>
            \/ locationData.isLoading
            \/ /\ lastWriter # c
               /\ lastWriter \in Cascades
               /\ Settled(lastWriter)
               /\ locationData = FinalWrite(lastWriter)

\* Two cascades overlap, both still in flight, and the flag is up.
C11_Witness ==
    /\ \E c, d \in Cascades : c # d /\ InFlight(c) /\ InFlight(d)
    /\ locationData.isLoading

(***************************************************************************)
(* C12: overlapping cascades do not affect each other: a step of one       *)
(* cascade changes no other cascade's position, variables or effects, and  *)
(* every cascade in flight can still receive the answer it waits for; once *)
(* every started cascade has settled, the visible state is the one written *)
(* by the cascade that settled last, whichever was started last.           *)
(***************************************************************************)
C12_LastSettledWins ==
    [][/\ \A c, d \in Cascades :
            (c # d /\ pc'[c] # pc[c]) =>
                /\ pc'[d] = pc[d]
                /\ effects'[d] = effects[d]
                /\ highAccuracyError'[d] = highAccuracyError[d]
                /\ lowAccuracyError'[d] = lowAccuracyError[d]
       /\ \A c \in Cascades :
            InFlight(c) =>
                ENABLED (\/ HighAccuracyReject(c, Undefined)
                         \/ LowAccuracyReject(c, Undefined)
                         \/ FetchReject(c)
                         \/ JsonReject(c))
       /\ (\A c \in Cascades : c <= calls' => Settled(c)') =>
            /\ \E w \in Cascades :
                  lastWriter' = w /\ locationData' = FinalWrite(w)'
            /\ \A c \in Cascades :
                  (pc[c] # "done" /\ pc'[c] = "done") => lastWriter' = c]_vars

\* The cascade started first settled last, after the getLocation() call, and
\* its outcome is the visible one although the later cascade's differs.
C12_Witness ==
    /\ calls = 2
    /\ Settled(1) /\ Settled(2)
    /\ lastWriter = 1
    /\ locationData = FinalWrite(1)
    /\ FinalWrite(1) # FinalWrite(2)

(***************************************************************************)
(* C13: strategy 3 fails, and the cascade settles with coordinates null    *)
(* and a message, whenever fetch rejects, the response has a non-success   *)
(* status, or the body lacks latitude or longitude, whatever else the body *)
(* holds.                                                                  *)
(***************************************************************************)
C13_BadResponseIsFailure ==
    [][\A c \in Cascades :
          /\ (pc[c] = "fetch" /\ FetchReject(c)) =>
                /\ locationData'.coordinates = Null
                /\ locationData'.error # Null
          /\ \A data \in JsonBodies :
                (/\ pc[c] = "json"
                 /\ \/ responseOk[c] = Some(FALSE)
                    \/ data.latitude = Null
                    \/ data.longitude = Null
                 /\ JsonResolve(c, data)) =>
                    /\ locationData'.coordinates = Null
                    /\ locationData'.error # Null]_vars

(***************************************************************************)
(* C14: within a cascade the requests are a prefix of high, low, fetch     *)
(* (fixed order, each at most once); a request is issued only in the start *)
(* step or in the step that receives the failure of the previous one; and  *)
(* the only request outstanding is the last one issued.                    *)
(***************************************************************************)
C14_StrategiesInOrder ==
    [][\A c \in Cascades :
          /\ Requests(c)' \in {<<>>, <<"high">>, <<"high", "low">>,
                                <<"high", "low", "fetch">>}
          /\ pc'[c] = "high" => Requests(c)' = <<"high">>
          /\ pc'[c] = "low" => Requests(c)' = <<"high", "low">>
          /\ pc'[c] \in {"fetch", "json"} => Requests(c)' = <<"high", "low", "fetch">>
          /\ Len(effects'[c]) # Len(effects[c]) /\ IsRequest(effects'[c][Len(effects'[c])]) =>
                \/ StartStep(c)
                \/ /\ pc[c] = "high"
                   /\ highAccuracyError[c] = Unbound
                   /\ highAccuracyError'[c] # Unbound
                   /\ Requests(c)' = Append(Requests(c), "low")
                \/ /\ pc[c] = "low"
                   /\ lowAccuracyError[c] = Unbound
                   /\ lowAccuracyError'[c] # Unbound
                   /\ Requests(c)' = Append(Requests(c), "fetch")]_vars

\* A cascade has gone through all three strategies, one after the other.
C14_Witness ==
    \E c \in Cascades :
        /\ pc[c] = "json"
        /\ Requests(c) = <<"high", "low", "fetch">>
        /\ highAccuracyError[c] # Unbound
        /\ lowAccuracyError[c] # Unbound

(***************************************************************************)
(* C15: a failure of strategy 1 or of strategy 2 leaves coordinates, error *)
(* and isLoading as they were; a step that makes the error field non-null  *)
(* is a start step without the capability or the failure of strategy 3.    *)
(***************************************************************************)
C15_StrategyFailureNotSurfaced ==
    [][\A c \in Cascades :
          /\ (pc[c] = "high" /\ pc'[c] \in {"low", "threw"}) =>
                locationData' = locationData
          /\ (pc[c] = "low" /\ pc'[c] \in {"fetch", "threw"}) =>
                locationData' = locationData
          /\ (/\ pc'[c] # pc[c]
              /\ locationData'.error # Null
              /\ locationData' # locationData) =>
                \/ StartStep(c) /\ ~geolocation
                \/ IPFailedStep(c)]_vars

\* Both device strategies of a cascade have failed and nothing but the start
\* write is visible.
C15_Witness ==
    \E c \in Cascades :
        /\ pc[c] = "fetch"
        /\ lastWriter = c
        /\ lowAccuracyError[c] \in ErrorObjects
        /\ locationData = Written(c, 1)
        /\ locationData.error = Null

(***************************************************************************)
(* C16: the error field is null or one of the five fixed strings, and no   *)
(* cascade ends with an exception escaping getLocationWithFallback.        *)
(***************************************************************************)
C16_NoEscapingException ==
    /\ locationData.error \in
          {Null,
           Some("Geolocation is not supported by your browser"),
           Some("Location permission denied. Please enable location access in your browser settings."),
           Some("Location is currently unavailable. Please check your GPS/WiFi connection and try again."),
           Some("Location request timed out. Please try again."),
           Some("Unable to determine your location. Please enable location services and try again.")}
    /\ \A c \in Cascades : pc[c] # "threw"

(***************************************************************************)
(* C17: the start write keeps the coordinates of the state it updates, and *)
(* the visible coordinates change only in a step in which a cascade        *)
(* settles or reports the capability absent.                               *)
(***************************************************************************)
C17_StartKeepsCoordinates ==
    [][/\ \A c \in Cascades :
            StartStep(c) =>
                /\ Written(c, 1)'.coordinates = locationData.coordinates
                /\ geolocation =>
                      locationData'.coordinates = locationData.coordinates
       /\ locationData'.coordinates # locationData.coordinates =>
            \E c \in Cascades : pc[c] # "done" /\ pc'[c] = "done"]_vars

\* The coordinates of an earlier success are still visible after a later
\* cascade started and its first strategy failed.
C17_Witness ==
    \E c, d \in Cascades :
        /\ Settled(c)
        /\ FinalWrite(c).coordinates # Null
        /\ pc[d] = "low"
        /\ lastWriter = d
        /\ locationData.coordinates = FinalWrite(c).coordinates
====
